---- MODULE Spec2Model ----
(***************************************************************************)
(* Clinicx: FIFO inventory dispensing and the prescription lifecycle.      *)
(*                                                                         *)
(* The model follows src/clinic_erp_system.py (InventoryService and the    *)
(* dispense_prescription endpoint) and src/clinic_erp_part4.py             *)
(* (InventoryManager).  The database tables are the committed state; every *)
(* request works through its own SQLAlchemy session (get_db), whose        *)
(* in-memory rows are written to the tables only by db.commit() and are    *)
(* dropped by db.close().  Sessions are created with autoflush=False, so   *)
(* a query reads the committed tables.                                     *)
(*                                                                         *)
(* check_stock_availability is written with db.func.sum(...); it is read   *)
(* here as the SQL SUM that the query is written to compute.               *)
(*                                                                         *)
(* Spec runs two requests at a time, interleaved at the statements that    *)
(* reach the database (query, commit): the handlers take no lock and read  *)
(* without FOR UPDATE, so this is the schedule of two server processes on  *)
(* one database (src/clinic_erp_part5.py starts uvicorn with --workers 4). *)
(* SeqSpec and AllocSpec run one call at a time.                           *)
(*                                                                         *)
(* SafetySpec serves one received request of the prescription safety       *)
(* checks (check_drug_interactions, check_allergies, create_prescription)  *)
(* over drawn medicines, patients and drug_interactions tables.  Names and *)
(* allergy texts are sequences of characters; an interaction warning keeps *)
(* the pair of medicines it names (its severity and description are those  *)
(* of whichever record the query returns first).                           *)
(*                                                                         *)
(* LedgerSpec creates and dispenses prescriptions one call at a time from  *)
(* one known ledger.  LoginSpec follows the login endpoint of              *)
(* src/clinic_erp_part2.py for two workers, interleaved at the user query  *)
(* and the commit, with a clock that moves in steps of half the lock       *)
(* duration; the answers given are kept in responses.  AppointmentSpec     *)
(* follows create_appointment and update_appointment_status of             *)
(* src/clinic_erp_system.py, one call at a time.                           *)
(***************************************************************************)
EXTENDS Integers, Sequences, FiniteSets, TLC

\* ------------------------------------------------------------------ bounds
MaxQty == 2
MaxReq == 2
MaxPresc == 2
MaxMeds == 3
MaxLen == 3
MaxName == 2
MaxAppt == 2

Medicines == {1, 2}
Locations == {"Pharmacy", "Warehouse"}
ExpiryDays == 0 .. 3
Procs == {1, 2}
Users == {1, 2}
RequestQtys == -1 .. MaxReq
Items == [medicine_id : Medicines, quantity : RequestQtys]

\* Medication lists of the concurrent runs, and of the one-request-at-a-time
\* runs (every list of at most two medications).
ItemLists == {<<[medicine_id |-> 1, quantity |-> MaxReq]>>,
              <<[medicine_id |-> 1, quantity |-> 1], [medicine_id |-> 2, quantity |-> 1]>>}
AllItemLists == {<<>>} \cup {<<i>> : i \in Items} \cup {<<i, j>> : i \in Items, j \in Items}

\* The medicines of the safety checks, the lists of them a caller submits,
\* and the characters of names and allergy texts.
PositiveItemLists == {l \in AllItemLists : \A k \in 1 .. Len(l) : l[k].quantity > 0}
\* The accounts of the users table and the usernames a login may name.
Accounts == {1}
Usernames == {1, 2}

\* The doctors, dates and times of day of the appointment book.
Doctors == {1, 2}
Dates == {1, 2}
Times == {1, 2}

SafetyMedicines == 1 .. MaxMeds
Patients == {1, 2}
IdLists == UNION {[1 .. n -> SafetyMedicines] : n \in 0 .. MaxMeds}
Chars == {"p", "P", "x", " ", ","}
NameChars == {"p", "P", "x"}
AllergyTexts == UNION {[1 .. n -> Chars] : n \in 0 .. MaxLen}
Names == UNION {[1 .. n -> NameChars] : n \in 1 .. MaxName}

VARIABLES today, inventory, prescriptions, req, medicines, patients, drug_interactions,
          users, now, call, responses, appointments

vars == <<today, inventory, prescriptions, req, medicines, patients, drug_interactions,
          users, now, call, responses, appointments>>
tables == <<medicines, patients, drug_interactions>>
desk == <<users, now, call, responses, appointments>>

\* ------------------------------------------------------------- data model
NULL == <<>>
Some(v) == <<v>>

PENDING == "pending"
DISPENSED == "dispensed"
CANCELLED == "cancelled"
PrescriptionStatus == {PENDING, DISPENSED, CANCELLED}

\* The location dispense_medicine_fifo uses when the caller names none.
DefaultLocation == "Pharmacy"

Min(a, b) == IF a <= b THEN a ELSE b

RECURSIVE SumQty(_, _)
SumQty(rows, S) ==
    IF S = {} THEN 0
    ELSE LET b == CHOOSE x \in S : TRUE
         IN rows[b].quantity + SumQty(rows, S \ {b})

RECURSIVE SumDispensed(_)
SumDispensed(d) ==
    IF d = <<>> THEN 0 ELSE Head(d).quantity + SumDispensed(Tail(d))

Quantities(inv) == [b \in DOMAIN inv |-> inv[b].quantity]

NoRows == [b \in {} |-> 0]

IdleReq ==
    [pc |-> "idle", op |-> "none", pid |-> 0, user |-> 0, k |-> 0,
     medicine_id |-> 0, quantity |-> 0, location |-> "",
     rows |-> NoRows, dispensed |-> <<>>, details |-> <<>>,
     error |-> "none", pre |-> NoRows, result |-> NULL,
     patient_id |-> 0, medications |-> <<>>]

\* A login request: its position, the credentials (the account named,
\* whether the password is the account's, whether an MFA code came with it)
\* and the User row its session has loaded.
IdleCall ==
    [pc |-> "idle", username |-> 0, password_ok |-> FALSE, mfa_code |-> FALSE,
     user |-> NULL]

\* ---------------------------------------------------------- stock queries
\* The selection with the expiry comparison let through at the boundary.
AvailableBatchesAtBoundary(inv, medicine_id, location) ==
    {b \in DOMAIN inv :
        /\ inv[b].medicine_id = medicine_id
        /\ inv[b].location = location
        /\ inv[b].quantity > 0
        /\ inv[b].expiry_date >= today}

\* The selection without the location filter.
AvailableBatchesAnyLocation(inv, medicine_id, location) ==
    {b \in DOMAIN inv :
        /\ inv[b].medicine_id = medicine_id
        /\ inv[b].quantity > 0
        /\ inv[b].expiry_date > today}

\* The rows the FIFO queries select: medicine, location, quantity > 0 and
\* expiry_date strictly after today.
AvailableBatches(inv, medicine_id, location) ==
    {b \in DOMAIN inv :
        /\ inv[b].medicine_id = medicine_id
        /\ inv[b].location = location
        /\ inv[b].quantity > 0
        /\ inv[b].expiry_date > today}

\* ORDER BY expiry_date ASC: every order of the selected rows that is
\* non-decreasing in expiry_date (rows of equal expiry come in any order).
OrderByExpiry(inv, S) ==
    {s \in [1 .. Cardinality(S) -> S] :
        /\ \A i, j \in 1 .. Cardinality(S) : i # j => s[i] # s[j]
        /\ \A i \in 1 .. Cardinality(S) - 1 :
              inv[s[i]].expiry_date <= inv[s[i + 1]].expiry_date}

\* InventoryService.check_stock_availability: the sum over every location.
TotalStock(inv, medicine_id) ==
    SumQty(inv, {b \in DOMAIN inv :
                    /\ inv[b].medicine_id = medicine_id
                    /\ inv[b].quantity > 0
                    /\ inv[b].expiry_date > today})

check_stock_availability(inv, medicine_id, required_quantity) ==
    TotalStock(inv, medicine_id) >= required_quantity

\* ------------------------------------------------- InventoryService FIFO
Entry(rows, b, q) ==
    [batch_number |-> b, quantity |-> q, expiry_date |-> rows[b].expiry_date]

\* The loop without the test of the row's quantity against what is needed.
RECURSIVE ServiceLoopNoFloor(_, _, _, _)
ServiceLoopNoFloor(order, rows, remaining, dispensed) ==
    IF order = <<>> \/ remaining <= 0
    THEN [rows |-> rows, remaining |-> remaining, dispensed |-> dispensed]
    ELSE LET b == Head(order)
         IN ServiceLoopNoFloor(Tail(order),
                               [rows EXCEPT ![b].quantity = @ - remaining],
                               0,
                               Append(dispensed, Entry(rows, b, remaining)))

RECURSIVE ServiceLoop(_, _, _, _)
ServiceLoop(order, rows, remaining, dispensed) ==
    IF order = <<>> \/ remaining <= 0
    THEN [rows |-> rows, remaining |-> remaining, dispensed |-> dispensed]
    ELSE LET b == Head(order)
         IN IF rows[b].quantity >= remaining
            THEN ServiceLoop(Tail(order),
                             [rows EXCEPT ![b].quantity = @ - remaining],
                             0,
                             Append(dispensed, Entry(rows, b, remaining)))
            ELSE ServiceLoop(Tail(order),
                             [rows EXCEPT ![b].quantity = 0],
                             remaining - rows[b].quantity,
                             Append(dispensed, Entry(rows, b, rows[b].quantity)))

\* ------------------------------------------------- InventoryManager FIFO
\* The loop taking every visited batch whole.
RECURSIVE ManagerLoopWholeBatch(_, _, _, _)
ManagerLoopWholeBatch(order, rows, remaining_qty, dispensed) ==
    IF order = <<>> \/ remaining_qty <= 0
    THEN [rows |-> rows, remaining |-> remaining_qty, dispensed |-> dispensed]
    ELSE LET b == Head(order)
         IN ManagerLoopWholeBatch(Tail(order),
                                  [rows EXCEPT ![b].quantity = 0],
                                  remaining_qty - rows[b].quantity,
                                  Append(dispensed, Entry(rows, b, rows[b].quantity)))

RECURSIVE ManagerLoop(_, _, _, _)
ManagerLoop(order, rows, remaining_qty, dispensed) ==
    IF order = <<>> \/ remaining_qty = 0
    THEN [rows |-> rows, remaining |-> remaining_qty, dispensed |-> dispensed]
    ELSE LET b == Head(order)
             dispensed_from_batch == Min(rows[b].quantity, remaining_qty)
         IN ManagerLoop(Tail(order),
                        [rows EXCEPT ![b].quantity = @ - dispensed_from_batch],
                        remaining_qty - dispensed_from_batch,
                        Append(dispensed, Entry(rows, b, dispensed_from_batch)))

\* ------------------------------------------------------------------- texts
\* A text is a sequence of characters.  str.lower(), str.strip(),
\* str.split(',') and the substring test `t in s` of the allergy check.
LowerChar(c) == IF c = "P" THEN "p" ELSE c
Lower(s) == [i \in 1 .. Len(s) |-> LowerChar(s[i])]

RECURSIVE Strip(_)
Strip(s) ==
    IF s # <<>> /\ Head(s) = " " THEN Strip(Tail(s))
    ELSE IF s # <<>> /\ s[Len(s)] = " " THEN Strip(SubSeq(s, 1, Len(s) - 1))
    ELSE s

RECURSIVE Split(_)
Split(s) ==
    IF \A i \in 1 .. Len(s) : s[i] # ","
    THEN <<s>>
    ELSE LET i == CHOOSE k \in 1 .. Len(s) :
                      s[k] = "," /\ \A h \in 1 .. k - 1 : s[h] # ","
         IN <<SubSeq(s, 1, i - 1)>> \o Split(SubSeq(s, i + 1, Len(s)))

Contains(t, s) ==
    \E i \in 0 .. Len(s) - Len(t) : SubSeq(s, i + 1, i + Len(t)) = t

\* ----------------------------------------------------------- safety checks
\* The interaction query with one ordering of the pair only.
InteractsAsStored(x, y) ==
    \E r \in drug_interactions : r.drug_a_id = x /\ r.drug_b_id = y

\* The query of check_drug_interactions: a record for the pair in either
\* ordering.
Interacts(x, y) ==
    \E r \in drug_interactions :
        \/ r.drug_a_id = x /\ r.drug_b_id = y
        \/ r.drug_a_id = y /\ r.drug_b_id = x

\* The two loops listing each pair as [medicine_ids[j], medicine_ids[i]].
RECURSIVE InteractionLoopPairReversed(_, _, _, _)
InteractionLoopPairReversed(medicine_ids, i, j, warnings) ==
    IF i > Len(medicine_ids) THEN warnings
    ELSE IF j > Len(medicine_ids)
    THEN InteractionLoopPairReversed(medicine_ids, i + 1, i + 2, warnings)
    ELSE InteractionLoopPairReversed(medicine_ids, i, j + 1,
                         IF Interacts(medicine_ids[i], medicine_ids[j])
                         THEN Append(warnings,
                                     [drugs |-> <<medicine_ids[j], medicine_ids[i]>>])
                         ELSE warnings)

\* The two nested loops over positions i < j.
RECURSIVE InteractionLoop(_, _, _, _)
InteractionLoop(medicine_ids, i, j, warnings) ==
    IF i > Len(medicine_ids) THEN warnings
    ELSE IF j > Len(medicine_ids)
    THEN InteractionLoop(medicine_ids, i + 1, i + 2, warnings)
    ELSE InteractionLoop(medicine_ids, i, j + 1,
                         IF Interacts(medicine_ids[i], medicine_ids[j])
                         THEN Append(warnings,
                                     [drugs |-> <<medicine_ids[i], medicine_ids[j]>>])
                         ELSE warnings)

check_drug_interactions(medicine_ids) == InteractionLoop(medicine_ids, 1, 2, <<>>)

\* The loop reporting a medicine only when a token is its whole name.
RECURSIVE AllergyLoopExact(_, _, _)
AllergyLoopExact(allergies, medicine_ids, warnings) ==
    IF medicine_ids = <<>> THEN warnings
    ELSE LET med_id == Head(medicine_ids)
             hit == /\ med_id \in DOMAIN medicines
                    /\ \E a \in 1 .. Len(allergies) :
                          Strip(allergies[a]) = Lower(medicines[med_id].name)
         IN AllergyLoopExact(allergies, Tail(medicine_ids),
                             IF hit
                             THEN Append(warnings, [allergic_to |-> medicines[med_id].name])
                             ELSE warnings)

\* The loop of check_allergies over the submitted medicines; a warning names
\* the medicine.
RECURSIVE AllergyLoop(_, _, _)
AllergyLoop(allergies, medicine_ids, warnings) ==
    IF medicine_ids = <<>> THEN warnings
    ELSE LET med_id == Head(medicine_ids)
             hit == /\ med_id \in DOMAIN medicines
                    /\ \E a \in 1 .. Len(allergies) :
                          Contains(Strip(allergies[a]), Lower(medicines[med_id].name))
         IN AllergyLoop(allergies, Tail(medicine_ids),
                        IF hit
                        THEN Append(warnings, [allergic_to |-> medicines[med_id].name])
                        ELSE warnings)

check_allergies(patient_id, medicine_ids) ==
    IF patient_id \in DOMAIN patients /\ patients[patient_id].allergies # <<>>
    THEN AllergyLoop(Split(Lower(patients[patient_id].allergies)), medicine_ids, <<>>)
    ELSE <<>>

\* DrugInteractionChecker.check_allergies on medicine names and a list of
\* allergies: the direct match, either text inside the other.  (Its
\* allergy groups name drugs spelled with letters that no name here holds.)
RECURSIVE CheckerLoop(_, _, _)
CheckerLoop(names, patient_allergies, flagged) ==
    IF names = <<>> THEN flagged
    ELSE LET medicine == Head(names)
             med_lower == Lower(medicine)
             hit == \E a \in 1 .. Len(patient_allergies) :
                       LET allergy_lower == Strip(Lower(patient_allergies[a]))
                       IN \/ Contains(allergy_lower, med_lower)
                          \/ Contains(med_lower, allergy_lower)
         IN CheckerLoop(Tail(names), patient_allergies,
                        IF hit THEN Append(flagged, [allergic_to |-> medicine])
                        ELSE flagged)

checker_check_allergies(names, patient_allergies) ==
    CheckerLoop(names, patient_allergies, <<>>)

\* The items built with the medications that raised a warning left out.
PrescriptionItemsUnflagged(medications, interaction_warnings, allergy_warnings) ==
    LET clean == SelectSeq(medications,
                           LAMBDA item :
                              /\ allergy_warnings = <<>>
                              /\ \A w \in 1 .. Len(interaction_warnings) :
                                    \A d \in 1 .. 2 :
                                       interaction_warnings[w].drugs[d] # item.medicine_id)
    IN [k \in 1 .. Len(clean) |->
           [medicine_id |-> clean[k].medicine_id,
            quantity |-> clean[k].quantity,
            warnings |-> NULL]]

\* The items create_prescription adds: one per medication, each with the
\* interaction warnings that name its medicine and every allergy warning.
PrescriptionItems(medications, interaction_warnings, allergy_warnings) ==
    [k \in 1 .. Len(medications) |->
        LET item == medications[k]
            warnings ==
                SelectSeq(interaction_warnings,
                          LAMBDA w : \E d \in 1 .. 2 : w.drugs[d] = item.medicine_id)
                \o allergy_warnings
        IN [medicine_id |-> item.medicine_id,
            quantity |-> item.quantity,
            warnings |-> IF warnings = <<>> THEN NULL ELSE Some(warnings)]]

MedicineIds(medications) ==
    [k \in 1 .. Len(medications) |-> medications[k].medicine_id]

\* PrescriptionService.create_prescription: the prescription it stores.
create_prescription(patient_id, medications) ==
    LET medicine_ids == MedicineIds(medications)
        interaction_warnings == check_drug_interactions(medicine_ids)
        allergy_warnings == check_allergies(patient_id, medicine_ids)
    IN [status |-> PENDING, dispensed_by |-> NULL, dispensed_at |-> NULL,
        items |-> PrescriptionItems(medications, interaction_warnings, allergy_warnings)]

\* ---------------------------------------------------------------- sessions
\* The rows a session holds in memory, and the quantity it shows for a batch.
Loaded(inv, S) == [b \in S |-> inv[b]]

SessionQuantity(p, b) ==
    IF b \in DOMAIN req[p].rows THEN req[p].rows[b].quantity
    ELSE inventory[b].quantity

\* db.commit(): the session's rows are written to the table.
Commit(inv, rows) ==
    [b \in DOMAIN inv |-> IF b \in DOMAIN rows THEN rows[b] ELSE inv[b]]

\* The rows the unit of work writes: those whose in-memory quantity differs
\* from the loaded one.
Dirty(loaded, rows) ==
    [b \in {x \in DOMAIN rows : rows[x] # loaded[x]} |-> rows[b]]

\* ------------------------------------------------------------------- Init
Batch(m, l, e, q) ==
    [medicine_id |-> m, location |-> l, expiry_date |-> e, quantity |-> q]

BatchRows == [medicine_id : Medicines, location : Locations,
              expiry_date : ExpiryDays, quantity : 0 .. MaxQty]

\* The ledger of the prescription runs: two Pharmacy batches of medicine 1
\* (the second expiring first), medicine 2 in the Pharmacy and in the
\* Warehouse.
Layout(q1, q2, q3, q4) ==
    (1 :> Batch(1, "Pharmacy", 3, q1)) @@
    (2 :> Batch(1, "Pharmacy", 2, q2)) @@
    (3 :> Batch(2, "Pharmacy", 2, q3)) @@
    (4 :> Batch(2, "Warehouse", 2, q4))

\* A prescription cancelled before the run (no endpoint of the source writes
\* the status cancelled; the column admits it).
Stored(status, items) ==
    [status |-> status, dispensed_by |-> NULL, dispensed_at |-> NULL,
     items |-> PrescriptionItems(items, <<>>, <<>>)]

\* The tables of the safety checks as the stock and dispensing runs hold
\* them: no interaction record; patient 1 allergic to "p", patient 2 without
\* allergies; medicine 1 named "Px", the others "x".
Medicine(name, generic_name) == [name |-> name, generic_name |-> generic_name]

PlainMedicines ==
    [m \in SafetyMedicines |->
        IF m = 1 THEN Medicine(<<"P", "x">>, NULL) ELSE Medicine(<<"x">>, NULL)]

Patient(allergies) == [allergies |-> allergies]

PlainPatients == (1 :> Patient(<<"p">>)) @@ (2 :> Patient(<<>>))

PlainTables ==
    /\ medicines = PlainMedicines
    /\ patients = PlainPatients
    /\ drug_interactions = {}

\* The accounts and the appointment book as the other runs hold them: one
\* account that never failed a login, no appointment, no request.
Account(failed_login_attempts, account_locked_until, mfa_enabled) ==
    [failed_login_attempts |-> failed_login_attempts,
     account_locked_until |-> account_locked_until,
     mfa_enabled |-> mfa_enabled]

PlainDesk ==
    /\ users = [u \in Accounts |-> Account(0, NULL, FALSE)]
    /\ now = 0
    /\ call = [p \in Procs |-> IdleCall]
    /\ responses = <<>>
    /\ appointments = <<>>

Init ==
    /\ today = 1
    /\ inventory \in {Layout(q1, MaxQty, MaxQty, MaxQty) : q1 \in {0, MaxQty}}
    /\ prescriptions \in {<<>>, <<Stored(CANCELLED, <<[medicine_id |-> 1, quantity |-> 1]>>)>>}
    /\ req = [p \in Procs |-> IdleReq]
    /\ PlainTables
    /\ PlainDesk

\* One stored prescription, pending, with any medication list.
InitSeq ==
    /\ today = 1
    /\ inventory \in {Layout(q1, q2, q3, q4) :
                        q1 \in {0, MaxQty}, q2 \in 0 .. MaxQty, q3 \in {0, MaxQty}, q4 \in {0, MaxQty}}
    /\ prescriptions \in {<<Stored(PENDING, items)>> : items \in AllItemLists}
    /\ req = [p \in Procs |-> IdleReq]
    /\ PlainTables
    /\ PlainDesk

\* Any ledger of two batches, and the ledgers of three Pharmacy batches of
\* medicine 1 that are not expired; one pending prescription is stored.
InitAlloc ==
    /\ today = 1
    /\ inventory \in [1 .. 2 -> BatchRows] \cup
                     [1 .. 3 -> {r \in BatchRows : /\ r.medicine_id = 1
                                                   /\ r.location = DefaultLocation
                                                   /\ r.expiry_date > 1}]
    /\ prescriptions = <<Stored(PENDING, <<[medicine_id |-> 1, quantity |-> 1]>>)>>
    /\ req = [p \in Procs |-> IdleReq]
    /\ PlainTables
    /\ PlainDesk

\* A request as it arrives at a safety check or at create_prescription.
Medications(ids) == [k \in 1 .. Len(ids) |-> [medicine_id |-> ids[k], quantity |-> 1]]

Received(op, patient_id, ids) ==
    [IdleReq EXCEPT !.pc = "received", !.op = op, !.patient_id = patient_id,
                    !.medications = Medications(ids)]

\* Interaction tables of at most two records, over the plain medicines and
\* patients; any list of medicines is checked or prescribed.
InitInteractions ==
    /\ medicines = PlainMedicines
    /\ patients = PlainPatients
    /\ drug_interactions \in
          {S \in SUBSET [drug_a_id : SafetyMedicines, drug_b_id : SafetyMedicines] :
              Cardinality(S) <= 2}
    /\ \E ids \in IdLists :
          req \in {[p \in Procs |-> IF p = 1 THEN r ELSE IdleReq] :
                     r \in {Received("check_drug_interactions", 0, ids)} \cup
                            {Received("create", pt, ids) : pt \in Patients}}

\* Any allergy text for patient 1 and any name for medicine 1, with or
\* without a generic name; the lists name medicine 1 alone, after medicine
\* 2, or after an identifier the medicines table does not hold, and the
\* check is also made for a patient identifier the patients table does not
\* hold.
InitAllergies ==
    /\ \E name \in Names, generic_name \in {NULL, <<"p">>} :
          medicines = [m \in SafetyMedicines |->
                          IF m = 1 THEN Medicine(name, generic_name)
                          ELSE Medicine(<<"x">>, NULL)]
    /\ \E allergies \in AllergyTexts :
          patients = (1 :> Patient(allergies)) @@ (2 :> Patient(<<>>))
    /\ drug_interactions = {}
    /\ req \in {[p \in Procs |-> IF p = 1 THEN r ELSE IdleReq] :
                 r \in {Received("check_allergies", pt, ids) :
                           pt \in {1, 3}, ids \in {<<1>>, <<2, 1>>, <<0, 1>>}} \cup
                        {Received(op, 1, ids) :
                           op \in {"create", "checker_check_allergies"},
                           ids \in {<<1>>, <<2, 1>>}}}

\* The ledger the conservation runs start from, with no stock outside the
\* Pharmacy, and no prescription stored.
InitialLedger == Layout(MaxQty, MaxQty, MaxQty, 0)

InitLedger ==
    /\ today = 1
    /\ inventory = InitialLedger
    /\ prescriptions = <<>>
    /\ req = [p \in Procs |-> IdleReq]
    /\ PlainTables
    /\ PlainDesk

\* Any list of at most two medications, with any quantity, is prescribed to
\* patient 2 over the plain tables.
InitQuantities ==
    /\ PlainTables
    /\ req \in {[p \in Procs |->
                   IF p = 1
                   THEN [IdleReq EXCEPT !.pc = "received", !.op = "create",
                                        !.patient_id = 2, !.medications = items]
                   ELSE IdleReq] : items \in AllItemLists}

\* One account, with or without MFA, that never failed a login.
InitLogin ==
    /\ today = 1
    /\ inventory = Layout(MaxQty, MaxQty, MaxQty, MaxQty)
    /\ prescriptions = <<>>
    /\ req = [p \in Procs |-> IdleReq]
    /\ PlainTables
    /\ users \in {[u \in Accounts |-> Account(0, NULL, mfa_enabled)] :
                    mfa_enabled \in BOOLEAN}
    /\ now = 0
    /\ call = [p \in Procs |-> IdleCall]
    /\ responses = <<>>
    /\ appointments = <<>>

\* An empty appointment book.
InitAppointments ==
    /\ today = 1
    /\ inventory = Layout(MaxQty, MaxQty, MaxQty, MaxQty)
    /\ prescriptions = <<>>
    /\ req = [p \in Procs |-> IdleReq]
    /\ PlainTables
    /\ PlainDesk

InitSafety ==
    /\ today = 1
    /\ inventory = Layout(MaxQty, MaxQty, MaxQty, MaxQty)
    /\ prescriptions = <<>>
    /\ InitInteractions \/ InitAllergies \/ InitQuantities
    /\ PlainDesk

\* ---------------------------------------------------------------- actions
\* PrescriptionService.create_prescription: the prescription row and one
\* item per submitted medication, committed together.
CreatePrescription(items) ==
    /\ Len(prescriptions) < MaxPresc
    /\ prescriptions' = Append(prescriptions, create_prescription(2, items))
    /\ UNCHANGED <<desk, tables, today, inventory, req>>

\* The create_prescription endpoint serving a received request.
CreatePrescriptionEndpoint(p) ==
    /\ req[p].pc = "received"
    /\ req[p].op = "create"
    /\ prescriptions' = Append(prescriptions,
                               create_prescription(req[p].patient_id, req[p].medications))
    /\ req' = [req EXCEPT ![p].pc = "done", ![p].pid = Len(prescriptions) + 1]
    /\ UNCHANGED <<desk, tables, today, inventory>>

\* A direct call of check_drug_interactions; the warnings are kept in result.
CheckDrugInteractions(p) ==
    /\ req[p].pc = "received"
    /\ req[p].op = "check_drug_interactions"
    /\ req' = [req EXCEPT ![p].pc = "done",
                          ![p].result =
                              Some(check_drug_interactions(MedicineIds(req[p].medications)))]
    /\ UNCHANGED <<desk, tables, today, inventory, prescriptions>>

\* A direct call of check_allergies.
CheckAllergies(p) ==
    /\ req[p].pc = "received"
    /\ req[p].op = "check_allergies"
    /\ req' = [req EXCEPT ![p].pc = "done",
                          ![p].result =
                              Some(check_allergies(req[p].patient_id,
                                                   MedicineIds(req[p].medications)))]
    /\ UNCHANGED <<desk, tables, today, inventory, prescriptions>>

\* A direct call of DrugInteractionChecker.check_allergies with the names of
\* the listed medicines and the patient's allergies as a list.
CheckerCheckAllergies(p) ==
    /\ req[p].pc = "received"
    /\ req[p].op = "checker_check_allergies"
    /\ LET ids == MedicineIds(req[p].medications)
           names == [k \in 1 .. Len(ids) |-> medicines[ids[k]].name]
           raw == patients[req[p].patient_id].allergies
           patient_allergies == IF raw = <<>> THEN <<>> ELSE Split(raw)
       IN req' = [req EXCEPT ![p].pc = "done",
                             ![p].result =
                                 Some(checker_check_allergies(names, patient_allergies))]
    /\ UNCHANGED <<desk, tables, today, inventory, prescriptions>>

\* The status test of dispense_prescription, and the test left out or made
\* against dispensed alone.
StatusUntested(status) == TRUE
StatusNotOnlyDispensed(status) == status # DISPENSED
StatusAllowsDispense(status) == status = PENDING

\* dispense_prescription, up to the status test.
DispenseStart(p, pid, user) ==
    /\ req[p].pc = "idle"
    /\ LET r == [IdleReq EXCEPT !.op = "dispense", !.pid = pid, !.user = user,
                                !.pre = Quantities(inventory)]
       IN IF pid \notin 1 .. Len(prescriptions)
          THEN req' = [req EXCEPT ![p] = [r EXCEPT !.pc = "failed", !.error = "not_found"]]
          ELSE IF ~StatusAllowsDispense(prescriptions[pid].status)
          THEN req' = [req EXCEPT ![p] = [r EXCEPT !.pc = "failed", !.error = "invalid_state"]]
          ELSE IF prescriptions[pid].items = <<>>
          THEN req' = [req EXCEPT ![p] = [r EXCEPT !.pc = "finish"]]
          ELSE req' = [req EXCEPT ![p] = [r EXCEPT !.pc = "check", !.k = 1]]
    /\ UNCHANGED <<desk, tables, today, inventory, prescriptions>>

\* The loop body of dispense_prescription, first half: the stock check.
CheckStock(p) ==
    /\ req[p].pc = "check"
    /\ LET item == prescriptions[req[p].pid].items[req[p].k]
       IN IF ~check_stock_availability(inventory, item.medicine_id, item.quantity)
          THEN req' = [req EXCEPT ![p].pc = "failed", ![p].error = "insufficient_stock",
                                  ![p].medicine_id = item.medicine_id,
                                  ![p].quantity = item.quantity]
          ELSE req' = [req EXCEPT ![p].pc = "alloc",
                                  ![p].medicine_id = item.medicine_id,
                                  ![p].quantity = item.quantity,
                                  ![p].location = DefaultLocation]
    /\ UNCHANGED <<desk, tables, today, inventory, prescriptions>>

\* A direct call of dispense_medicine_fifo (op names the implementation).
\* The guard bounds the stock a negative quantity adds in InventoryManager.
AllocateStart(p, op, medicine_id, location, quantity) ==
    /\ req[p].pc = "idle"
    /\ \A b \in DOMAIN inventory : inventory[b].quantity - quantity <= MaxQty + 1
    /\ req' = [req EXCEPT ![p] = [IdleReq EXCEPT !.pc = "alloc", !.op = op,
                                     !.medicine_id = medicine_id,
                                     !.location = location,
                                     !.quantity = quantity,
                                     !.pre = Quantities(inventory)]]
    /\ UNCHANGED <<desk, tables, today, inventory, prescriptions>>

\* A direct call of InventoryService.check_stock_availability: the verdict it
\* returns is kept in result.
CheckAvailability(p, medicine_id, required_quantity) ==
    /\ req[p].pc = "idle"
    /\ req' = [req EXCEPT ![p] =
                  [IdleReq EXCEPT !.pc = "done", !.op = "check",
                                  !.medicine_id = medicine_id,
                                  !.quantity = required_quantity,
                                  !.location = DefaultLocation,
                                  !.pre = Quantities(inventory),
                                  !.result = Some(check_stock_availability(
                                                 inventory, medicine_id, required_quantity))]]
    /\ UNCHANGED <<desk, tables, today, inventory, prescriptions>>

\* InventoryService.dispense_medicine_fifo up to db.commit(): the query, the
\* loop over the rows in memory, and the raise when the rows ran out.
ServiceFifo(p) ==
    /\ req[p].pc = "alloc"
    /\ req[p].op \in {"dispense", "allocate_service"}
    /\ LET S == AvailableBatches(inventory, req[p].medicine_id, req[p].location)
           loaded == Loaded(inventory, S)
       IN \E order \in OrderByExpiry(inventory, S) :
            LET out == ServiceLoop(order, loaded, req[p].quantity, <<>>)
            IN IF out.remaining > 0
               THEN req' = [req EXCEPT ![p].pc = "failed",
                                       ![p].error = "insufficient_stock",
                                       ![p].rows = Dirty(loaded, out.rows)]
               ELSE req' = [req EXCEPT ![p].pc = "commit",
                                       ![p].rows = Dirty(loaded, out.rows),
                                       ![p].dispensed = out.dispensed]
    /\ UNCHANGED <<desk, tables, today, inventory, prescriptions>>

\* InventoryManager.dispense_medicine_fifo up to db.commit().
ManagerFifo(p) ==
    /\ req[p].pc = "alloc"
    /\ req[p].op = "allocate_manager"
    /\ LET S == AvailableBatches(inventory, req[p].medicine_id, req[p].location)
           loaded == Loaded(inventory, S)
       IN IF S = {}
          THEN req' = [req EXCEPT ![p].pc = "failed", ![p].error = "no_stock"]
          ELSE IF SumQty(inventory, S) < req[p].quantity
          THEN req' = [req EXCEPT ![p].pc = "failed", ![p].error = "insufficient_stock"]
          ELSE \E order \in OrderByExpiry(inventory, S) :
                 LET out == ManagerLoop(order, loaded, req[p].quantity, <<>>)
                 IN req' = [req EXCEPT ![p].pc = "commit",
                                       ![p].rows = Dirty(loaded, out.rows),
                                       ![p].dispensed = out.dispensed]
    /\ UNCHANGED <<desk, tables, today, inventory, prescriptions>>

\* db.commit() at the end of dispense_medicine_fifo, and the return to the
\* caller: the endpoint's loop records the allocation and moves on.
FifoCommit(p) ==
    /\ req[p].pc = "commit"
    /\ inventory' = Commit(inventory, req[p].rows)
    /\ IF req[p].op = "dispense"
       THEN LET items == prescriptions[req[p].pid].items
                details == Append(req[p].details,
                                  [medicine_id |-> req[p].medicine_id,
                                   dispensed |-> req[p].dispensed])
            IN req' = [req EXCEPT ![p].rows = NoRows,
                                  ![p].details = details,
                                  ![p].k = @ + 1,
                                  ![p].pc = IF req[p].k < Len(items) THEN "check" ELSE "finish"]
       ELSE req' = [req EXCEPT ![p].rows = NoRows, ![p].pc = "done"]
    /\ UNCHANGED <<desk, tables, today, prescriptions>>

\* The end of dispense_prescription: status, actor and time, committed.
DispenseFinish(p) ==
    /\ req[p].pc = "finish"
    /\ prescriptions' = [prescriptions EXCEPT
                            ![req[p].pid].status = DISPENSED,
                            ![req[p].pid].dispensed_by = Some(req[p].user),
                            ![req[p].pid].dispensed_at = Some(today)]
    /\ req' = [req EXCEPT ![p].pc = "done"]
    /\ UNCHANGED <<desk, tables, today, inventory>>

\* get_db's finally: db.close() drops the session; the response is out.
CloseSession(p) ==
    /\ req[p].pc \in {"done", "failed"}
    /\ req' = [req EXCEPT ![p] = IdleReq]
    /\ UNCHANGED <<desk, tables, today, inventory, prescriptions>>

\* ------------------------------------------------------------------ login
\* Config of clinic_erp_part2.  The clock is read in minutes and moves in
\* steps of half the lock duration.
MAX_LOGIN_ATTEMPTS == 5
LOCK_DURATION_MINUTES == 30
ClockStep == LOCK_DURATION_MINUTES \div 2
MaxClock == 2 * LOCK_DURATION_MINUTES
MaxAttempts == MAX_LOGIN_ATTEMPTS + 1

\* The answer a login request gets, appended to the answers given so far.
Respond(username, outcome) ==
    Append(responses, [username |-> username, outcome |-> outcome])

\* login, the user query: 401 when no account has the username, else the
\* row is loaded into the request's session.
LoginQuery(p, username, password_ok, mfa_code) ==
    /\ call[p].pc = "idle"
    /\ Len(responses) + Cardinality({q \in Procs : call[q].pc = "loaded"}) < MaxAttempts
    /\ IF username \notin DOMAIN users
       THEN /\ responses' = Respond(username, "unknown_user")
            /\ call' = call
       ELSE /\ call' = [call EXCEPT ![p] =
                           [pc |-> "loaded", username |-> username,
                            password_ok |-> password_ok, mfa_code |-> mfa_code,
                            user |-> Some(users[username])]]
            /\ responses' = responses
    /\ UNCHANGED <<users, now, appointments, tables, today, inventory, prescriptions, req>>

\* login, from the lockout test to the response, on the loaded row: 403
\* while locked; on a wrong password the counter is raised, the lock is set
\* when the counter reaches MAX_LOGIN_ATTEMPTS, the row is committed and the
\* answer is 401; with MFA enabled and no code the answer asks for the code;
\* else the counter is set to 0, the row is committed and tokens are issued.
\* db.commit() writes the columns whose value differs from the loaded one.
LoginVerify(p) ==
    /\ call[p].pc = "loaded"
    /\ LET username == call[p].username
           user == call[p].user[1]
           attempts == user.failed_login_attempts + 1
       IN IF user.account_locked_until # NULL /\ user.account_locked_until[1] > now
          THEN /\ responses' = Respond(username, "locked")
               /\ users' = users
          ELSE IF ~call[p].password_ok
          THEN /\ users' = [users EXCEPT
                               ![username].failed_login_attempts = attempts,
                               ![username].account_locked_until =
                                   IF attempts >= MAX_LOGIN_ATTEMPTS
                                   THEN Some(now + LOCK_DURATION_MINUTES)
                                   ELSE @]
               /\ responses' = Respond(username, "invalid_password")
          ELSE IF user.mfa_enabled /\ ~call[p].mfa_code
          THEN /\ responses' = Respond(username, "requires_mfa")
               /\ users' = users
          ELSE /\ users' = IF user.failed_login_attempts = 0 THEN users
                           ELSE [users EXCEPT ![username].failed_login_attempts = 0]
               /\ responses' = Respond(username, "tokens")
    /\ call' = [call EXCEPT ![p] = IdleCall]
    /\ UNCHANGED <<now, appointments, tables, today, inventory, prescriptions, req>>

\* Time passes.
Tick ==
    /\ now + ClockStep <= MaxClock
    /\ now' = now + ClockStep
    /\ UNCHANGED <<users, call, responses, appointments, tables, today, inventory,
                   prescriptions, req>>

\* ----------------------------------------------------------- appointments
SCHEDULED == "scheduled"
CONFIRMED == "confirmed"
AppointmentStatus ==
    {SCHEDULED, CONFIRMED, "in_progress", "completed", "cancelled", "no_show"}

\* The query of create_appointment: an appointment of the doctor at the date
\* and time whose status is scheduled or confirmed.
Existing(doctor_id, appointment_date, appointment_time) ==
    {i \in 1 .. Len(appointments) :
        /\ appointments[i].doctor_id = doctor_id
        /\ appointments[i].appointment_date = appointment_date
        /\ appointments[i].appointment_time = appointment_time
        /\ appointments[i].status \in {SCHEDULED, CONFIRMED}}

\* create_appointment: rejected (400) when the slot is taken, else the
\* appointment is stored with the default status scheduled.
CreateAppointment(doctor_id, appointment_date, appointment_time) ==
    /\ Len(appointments) < MaxAppt
    /\ appointments' =
          IF Existing(doctor_id, appointment_date, appointment_time) # {}
          THEN appointments
          ELSE Append(appointments,
                      [doctor_id |-> doctor_id,
                       appointment_date |-> appointment_date,
                       appointment_time |-> appointment_time,
                       status |-> SCHEDULED])
    /\ UNCHANGED <<users, now, call, responses, tables, today, inventory,
                   prescriptions, req>>

\* update_appointment_status: 404 when no appointment has the identifier,
\* else the status is set to the one given and committed.
UpdateAppointmentStatus(appointment_id, new_status) ==
    /\ appointments' =
          IF appointment_id \notin 1 .. Len(appointments)
          THEN appointments
          ELSE [appointments EXCEPT ![appointment_id].status = new_status]
    /\ UNCHANGED <<users, now, call, responses, tables, today, inventory,
                   prescriptions, req>>

\* ---------------------------------------------------------- specifications
\* Requests of two workers, interleaved at their database statements.
Next ==
    \/ \E items \in ItemLists : CreatePrescription(items)
    \/ \E p \in Procs, pid \in 1 .. MaxPresc : DispenseStart(p, pid, p)
    \/ \E p \in Procs : CheckStock(p)
    \/ \E p \in Procs : ServiceFifo(p)
    \/ \E p \in Procs : FifoCommit(p)
    \/ \E p \in Procs : DispenseFinish(p)
    \/ \E p \in Procs : CloseSession(p)

Spec == Init /\ [][Next]_vars

\* Calls made one at a time: dispense_prescription and both allocators.
SeqNext ==
    \/ \E pid \in 1 .. MaxPresc, user \in Users : DispenseStart(1, pid, user)
    \/ CheckStock(1)
    \/ \E op \in {"allocate_service", "allocate_manager"},
          m \in Medicines, q \in RequestQtys :
          AllocateStart(1, op, m, DefaultLocation, q)
    \/ ServiceFifo(1)
    \/ ManagerFifo(1)
    \/ FifoCommit(1)
    \/ DispenseFinish(1)
    \/ CloseSession(1)

SeqSpec == InitSeq /\ [][SeqNext]_vars

\* Direct calls of the two allocators, one at a time, on any ledger.
AllocNext ==
    \/ \E op \in {"allocate_service", "allocate_manager"},
          m \in Medicines, l \in Locations, q \in RequestQtys :
          AllocateStart(1, op, m, l, q)
    \/ \E m \in Medicines, q \in RequestQtys : CheckAvailability(1, m, q)
    \/ ServiceFifo(1)
    \/ ManagerFifo(1)
    \/ FifoCommit(1)
    \/ CloseSession(1)

AllocSpec == InitAlloc /\ [][AllocNext]_vars

\* One received safety check or prescription, served and answered.
SafetyNext ==
    \/ CheckDrugInteractions(1)
    \/ CheckAllergies(1)
    \/ CheckerCheckAllergies(1)
    \/ CreatePrescriptionEndpoint(1)
    \/ CloseSession(1)

SafetySpec == InitSafety /\ [][SafetyNext]_vars

\* Prescriptions with positive quantities are created and dispensed, one
\* call at a time, from the initial ledger.
LedgerNext ==
    \/ \E items \in PositiveItemLists : CreatePrescription(items)
    \/ \E pid \in 1 .. MaxPresc, user \in Users : DispenseStart(1, pid, user)
    \/ CheckStock(1)
    \/ ServiceFifo(1)
    \/ FifoCommit(1)
    \/ DispenseFinish(1)
    \/ CloseSession(1)

LedgerSpec == InitLedger /\ [][LedgerNext]_vars

\* Login requests of two workers, interleaved at the query and the commit,
\* while time passes.
LoginNext ==
    \/ \E p \in Procs, username \in Usernames, password_ok \in BOOLEAN,
          mfa_code \in BOOLEAN :
          LoginQuery(p, username, password_ok, mfa_code)
    \/ \E p \in Procs : LoginVerify(p)
    \/ Tick

LoginSpec == InitLogin /\ [][LoginNext]_vars

\* Appointments are created and their status updated, one call at a time,
\* from an empty appointment book.
AppointmentNext ==
    \/ \E d \in Doctors, day \in Dates, t \in Times : CreateAppointment(d, day, t)
    \/ \E id \in 1 .. MaxAppt + 1, new_status \in AppointmentStatus :
          UpdateAppointmentStatus(id, new_status)

AppointmentSpec == InitAppointments /\ [][AppointmentNext]_vars

TypeOK ==
    /\ today \in ExpiryDays
    /\ \A b \in DOMAIN inventory : inventory[b].quantity \in Int
    /\ Len(prescriptions) <= MaxPresc

\* ------------------------------------------------------- reading a request
IsAllocate(p) == req[p].op \in {"allocate_service", "allocate_manager"}
IsDispense(p) == req[p].op = "dispense"
Returned(p) == req[p].pc \in {"done", "failed"}

\* The ledger as it was when request p began.
PreInv(p) ==
    [b \in DOMAIN inventory |-> [inventory[b] EXCEPT !.quantity = req[p].pre[b]]]

\* What was available to request p's allocation when it began.
PreTotal(p) ==
    SumQty(PreInv(p), AvailableBatches(PreInv(p), req[p].medicine_id, req[p].location))

\* The quantity request p's current allocation reports as taken from batch b.
RECURSIVE TakenIn(_, _)
TakenIn(d, b) ==
    IF d = <<>> THEN 0
    ELSE (IF Head(d).batch_number = b THEN Head(d).quantity ELSE 0) + TakenIn(Tail(d), b)

Taken(p, b) == TakenIn(req[p].dispensed, b)

ItemFailed(p) ==
    IsDispense(p) /\ req[p].pc = "failed" /\ req[p].error = "insufficient_stock"

\* ------------------------------------------------------------------ claims

\* C1: when dispense_prescription fails at an item of a prescription of two
\* or more items, every batch holds the quantity it held when the call began.
C1_AllOrNothing ==
    \A p \in Procs :
        (ItemFailed(p) /\ Len(prescriptions[req[p].pid].items) >= 2)
            => \A b \in DOMAIN inventory : inventory[b].quantity = req[p].pre[b]

\* C2: an allocate call that finds less available than requested fails with
\* an insufficient-stock error, and every batch quantity the caller's
\* session shows after the call is the quantity from before the call.
C2_InsufficientLeavesLedger ==
    \A p \in Procs :
        (IsAllocate(p) /\ Returned(p) /\ PreTotal(p) < req[p].quantity)
            => /\ req[p].pc = "failed"
               /\ req[p].error \in {"insufficient_stock", "no_stock"}
               /\ \A b \in DOMAIN inventory : SessionQuantity(p, b) = req[p].pre[b]

\* C3: two dispense requests for different prescriptions never both hold an
\* uncommitted allocation from the same batch that together takes more than
\* the batch holds, and no quantity is negative.
C3_NoSharedObservation ==
    /\ \A b \in DOMAIN inventory : inventory[b].quantity >= 0
    /\ \A p, q \in Procs :
        (/\ p # q
         /\ IsDispense(p) /\ IsDispense(q)
         /\ req[p].pid # req[q].pid
         /\ req[p].pc = "commit" /\ req[q].pc = "commit")
            => \A b \in DOMAIN inventory :
                  Taken(p, b) + Taken(q, b) <= inventory[b].quantity

\* C4: an allocate call for q >= 0 that finds at least q available succeeds;
\* its allocations sum to q, come from batches expiring after today, and are
\* listed in non-decreasing expiry order.
C4_AllocateExact ==
    \A p \in Procs :
        (IsAllocate(p) /\ Returned(p) /\ req[p].quantity >= 0
                       /\ PreTotal(p) >= req[p].quantity)
            => /\ req[p].pc = "done"
               /\ SumDispensed(req[p].dispensed) = req[p].quantity
               /\ \A i \in 1 .. Len(req[p].dispensed) :
                     req[p].dispensed[i].expiry_date > today
               /\ \A i \in 1 .. Len(req[p].dispensed) - 1 :
                     req[p].dispensed[i].expiry_date <= req[p].dispensed[i + 1].expiry_date

\* C5: every batch quantity, committed or held in a session, is >= 0.
C5_NonNegativeStock ==
    /\ \A b \in DOMAIN inventory : inventory[b].quantity >= 0
    /\ \A p \in Procs : \A b \in DOMAIN req[p].rows : req[p].rows[b].quantity >= 0

\* A call has drained a batch that held stock when the call began.
C5_Witness ==
    \E p \in Procs : \E b \in DOMAIN inventory :
        /\ Returned(p)
        /\ req[p].pre[b] > 0
        /\ inventory[b].quantity = 0

\* C6: a prescription's status changes only from pending, and only to
\* dispensed or cancelled; a dispensed or cancelled status never changes.
C6_Lifecycle ==
    [][\A i \in 1 .. Len(prescriptions) :
          /\ prescriptions[i].status \in {DISPENSED, CANCELLED}
                => prescriptions'[i].status = prescriptions[i].status
          /\ prescriptions'[i].status # prescriptions[i].status
                => /\ prescriptions[i].status = PENDING
                   /\ prescriptions'[i].status \in {DISPENSED, CANCELLED}]_vars

\* A request has written the status of a prescription another request had
\* already dispensed.
C6_Witness ==
    \E p, q \in Procs :
        /\ p # q
        /\ IsDispense(p) /\ IsDispense(q)
        /\ req[p].pc = "done" /\ req[q].pc = "done"
        /\ req[p].pid = req[q].pid

\* C7: dispense_prescription on a prescription that is not pending fails
\* with the invalid-state error, and the call changes no batch and no field
\* of the prescription.
C7_NotPendingRejected ==
    [][\A p \in Procs :
          /\ (/\ req[p].pc = "idle"
              /\ req'[p].op = "dispense"
              /\ req'[p].pid \in 1 .. Len(prescriptions)
              /\ prescriptions[req'[p].pid].status # PENDING)
                => /\ req'[p].pc = "failed"
                   /\ req'[p].error = "invalid_state"
                   /\ inventory' = inventory
                   /\ prescriptions' = prescriptions
          /\ (req[p].pc = "failed" /\ req'[p] # req[p])
                => /\ req'[p] = IdleReq
                   /\ inventory' = inventory
                   /\ prescriptions' = prescriptions]_vars

\* A dispense of an already dispensed prescription has been rejected.
C7_Witness ==
    \E p \in Procs :
        /\ IsDispense(p)
        /\ req[p].pc = "failed"
        /\ req[p].error = "invalid_state"
        /\ prescriptions[req[p].pid].status = DISPENSED
        /\ prescriptions[req[p].pid].dispensed_by # NULL

\* C8: when dispense_prescription fails at an item, the prescription is
\* pending and carries no dispensing actor or time as the call ends.
C8_FailureLeavesPending ==
    [][\A p \in Procs :
          (IsDispense(p) /\ req[p].pc # "failed" /\ req'[p].pc = "failed")
             => /\ prescriptions'[req[p].pid].status = PENDING
                /\ prescriptions'[req[p].pid].dispensed_by = NULL
                /\ prescriptions'[req[p].pid].dispensed_at = NULL]_vars

\* C9: when dispense_prescription succeeds the prescription is dispensed, by
\* the caller, with a time, and the details hold one record per item whose
\* quantities sum to the item's quantity.
C9_SuccessRecord ==
    \A p \in Procs :
        (IsDispense(p) /\ req[p].pc = "done")
            => LET rx == prescriptions[req[p].pid]
               IN /\ rx.status = DISPENSED
                  /\ rx.dispensed_by = Some(req[p].user)
                  /\ rx.dispensed_at # NULL
                  /\ Len(req[p].details) = Len(rx.items)
                  /\ \A k \in 1 .. Len(rx.items) :
                        /\ req[p].details[k].medicine_id = rx.items[k].medicine_id
                        /\ SumDispensed(req[p].details[k].dispensed) = rx.items[k].quantity

\* C10: an allocate call for quantity 0 returns the empty list without an
\* error and changes no batch.
C10_ZeroIsNoOp ==
    \A p \in Procs :
        (IsAllocate(p) /\ Returned(p) /\ req[p].quantity = 0)
            => /\ req[p].pc = "done"
               /\ req[p].dispensed = <<>>
               /\ \A b \in DOMAIN inventory : inventory[b].quantity = req[p].pre[b]

\* C11: an allocate call for a negative quantity fails with a validation
\* error, not with success and not with a stock error, and changes no batch
\* quantity, committed or held in the caller's session.
C11_NegativeIsValidationError ==
    \A p \in Procs :
        (IsAllocate(p) /\ Returned(p) /\ req[p].quantity < 0)
            => /\ req[p].pc = "failed"
               /\ req[p].error = "validation_error"
               /\ \A b \in DOMAIN inventory :
                     /\ inventory[b].quantity = req[p].pre[b]
                     /\ SessionQuantity(p, b) = req[p].pre[b]

\* C12: a batch whose expiry date is today or earlier is never drawn from by
\* an allocate call and never counted by the availability check, whatever
\* its quantity.
C12_ExpiredNeverUsed ==
    \A p \in Procs :
        /\ IsAllocate(p)
              => /\ \A i \in 1 .. Len(req[p].dispensed) :
                       /\ req[p].dispensed[i].expiry_date > today
                       /\ inventory[req[p].dispensed[i].batch_number].expiry_date > today
                 /\ \A b \in DOMAIN inventory :
                       inventory[b].expiry_date <= today
                          => /\ inventory[b].quantity = req[p].pre[b]
                             /\ SessionQuantity(p, b) = req[p].pre[b]
        /\ (req[p].op = "check" /\ Returned(p))
              => req[p].result =
                    Some(SumQty(inventory,
                                {b \in DOMAIN inventory :
                                    /\ inventory[b].medicine_id = req[p].medicine_id
                                    /\ inventory[b].expiry_date > today})
                         >= req[p].quantity)

\* An allocate call has drawn from a batch while a batch of the same medicine
\* and location that expires today, with stock, was left alone.
C12_Witness ==
    \E p \in Procs : \E b \in DOMAIN inventory :
        /\ IsAllocate(p)
        /\ req[p].pc = "done"
        /\ req[p].dispensed # <<>>
        /\ inventory[b].medicine_id = req[p].medicine_id
        /\ inventory[b].location = req[p].location
        /\ inventory[b].expiry_date = today
        /\ inventory[b].quantity > 0

\* C17: the verdict of the availability check made for a dispense is the
\* comparison of the required quantity with the stock of the medicine at
\* the dispensing location that expires after today (0 when there is none);
\* stock at other locations does not count.
C17_AvailabilityByLocation ==
    \A p \in Procs :
        (req[p].op = "check" /\ Returned(p))
            => /\ req[p].pc = "done"
               /\ req[p].result =
                     Some(SumQty(inventory,
                                 {b \in DOMAIN inventory :
                                     /\ inventory[b].medicine_id = req[p].medicine_id
                                     /\ inventory[b].location = req[p].location
                                     /\ inventory[b].expiry_date > today})
                          >= req[p].quantity)

\* C18: among available batches of equal expiry date an allocate call for a
\* quantity >= 0 draws from the smaller batch identifier first: the entries
\* of equal expiry are listed by ascending identifier, and a batch of the
\* same expiry and a smaller identifier than a listed one has been taken
\* whole.
C18_TieBreakByIdentifier ==
    \A p \in Procs :
        (IsAllocate(p) /\ req[p].pc \in {"commit", "done"} /\ req[p].quantity >= 0)
            => LET d == req[p].dispensed
                   avail == AvailableBatches(PreInv(p), req[p].medicine_id, req[p].location)
               IN /\ \A i \in 1 .. Len(d) - 1 :
                        d[i].expiry_date = d[i + 1].expiry_date
                           => d[i].batch_number < d[i + 1].batch_number
                  /\ \A i \in 1 .. Len(d) : \A b \in avail :
                        (/\ inventory[b].expiry_date = d[i].expiry_date
                         /\ b < d[i].batch_number)
                           => Taken(p, b) = req[p].pre[b]

\* C19: an allocate call applies no decrement before it has established that
\* the available batches cover the request: a call that has failed holds no
\* changed batch row.
C19_ValidateBeforeDecrement ==
    \A p \in Procs :
        (IsAllocate(p) /\ req[p].pc = "failed") => req[p].rows = NoRows

\* C20: a successful allocate call lists distinct available batches in
\* expiry order; every listed batch but the last is taken whole and left at
\* 0, the last gives min(its quantity, what is still needed) and keeps the
\* rest, no available batch is passed over for a later one, and no other
\* batch changes.
C20_FifoDrain ==
    \A p \in Procs :
        (IsAllocate(p) /\ req[p].pc = "done")
            => LET d == req[p].dispensed
                   n == Len(d)
                   pre == req[p].pre
                   avail == AvailableBatches(PreInv(p), req[p].medicine_id, req[p].location)
                   listed == {d[i].batch_number : i \in 1 .. n}
               IN /\ listed \subseteq avail
                  /\ Cardinality(listed) = n
                  /\ \A i \in 1 .. n - 1 :
                        /\ d[i].quantity = pre[d[i].batch_number]
                        /\ inventory[d[i].batch_number].quantity = 0
                        /\ d[i].expiry_date <= d[i + 1].expiry_date
                  /\ n >= 1 =>
                        /\ d[n].quantity =
                              Min(pre[d[n].batch_number],
                                  req[p].quantity - SumDispensed(SubSeq(d, 1, n - 1)))
                        /\ inventory[d[n].batch_number].quantity =
                              pre[d[n].batch_number] - d[n].quantity
                        /\ \A b \in avail \ listed :
                              inventory[b].expiry_date >= d[n].expiry_date
                  /\ \A b \in DOMAIN inventory \ listed :
                        inventory[b].quantity = pre[b]

\* A call has drained one batch, taken part of the next and left a third
\* available batch alone.
C20_Witness ==
    \E p \in Procs : \E b \in DOMAIN inventory :
        /\ IsAllocate(p)
        /\ req[p].pc = "done"
        /\ Len(req[p].dispensed) = 2
        /\ inventory[req[p].dispensed[1].batch_number].quantity = 0
        /\ inventory[req[p].dispensed[2].batch_number].quantity > 0
        /\ b \in AvailableBatches(PreInv(p), req[p].medicine_id, req[p].location)
        /\ Taken(p, b) = 0
        /\ inventory[b].quantity = req[p].pre[b]

\* ------------------------------------------------- reading a safety check
Range(s) == {s[i] : i \in 1 .. Len(s)}

\* The allergy tokens of a patient: the comma-separated parts of the text.
Tokens(patient_id) ==
    IF patient_id \notin DOMAIN patients \/ patients[patient_id].allergies = <<>>
    THEN {}
    ELSE Range(Split(patients[patient_id].allergies))

\* The unordered pairs a list of interaction warnings names.
PairSet(warnings) ==
    {{warnings[i].drugs[1], warnings[i].drugs[2]} : i \in 1 .. Len(warnings)}

\* The orders in which a list of distinct elements can be written.
Reorderings(s) == {t \in IdLists : Len(t) = Len(s) /\ Range(t) = Range(s)}

\* C13: a create_prescription request never fails on what the checks find:
\* it stores a pending prescription with one item per submitted medication,
\* in order, and what the checks find appears only as the warnings of the
\* items.
C13_CreateNeverBlocked ==
    \A p \in Procs :
        /\ (req[p].op = "create" /\ req[p].pc # "received")
              => /\ req[p].pc = "done"
                 /\ req[p].pid \in 1 .. Len(prescriptions)
                 /\ LET rx == prescriptions[req[p].pid]
                        meds == req[p].medications
                        found ==
                            Range(check_drug_interactions(MedicineIds(meds)))
                            \cup Range(check_allergies(req[p].patient_id, MedicineIds(meds)))
                    IN /\ rx.status = PENDING
                       /\ rx.dispensed_by = NULL
                       /\ Len(rx.items) = Len(meds)
                       /\ \A k \in 1 .. Len(meds) :
                             /\ rx.items[k].medicine_id = meds[k].medicine_id
                             /\ rx.items[k].quantity = meds[k].quantity
                             /\ rx.items[k].warnings # NULL
                                   => Range(rx.items[k].warnings[1]) \subseteq found

\* A prescription has been stored whose first item carries an interaction
\* warning and an allergy warning.
C13_Witness ==
    \E p \in Procs :
        /\ req[p].op = "create"
        /\ req[p].pc = "done"
        /\ Len(prescriptions[req[p].pid].items) >= 2
        /\ LET w == prescriptions[req[p].pid].items[1].warnings
           IN /\ w # NULL
              /\ \E a, b \in Range(w[1]) :
                    "drugs" \in DOMAIN a /\ "allergic_to" \in DOMAIN b

\* C14: for a list of distinct medicines check_drug_interactions returns one
\* warning for each unordered pair of the list that has a record in either
\* ordering and no other warning, and every permutation of the list gives
\* the same set of unordered pairs.
C14_InteractionsSymmetric ==
    \A p \in Procs :
        (req[p].op = "check_drug_interactions" /\ req[p].pc = "done")
            => LET ids == MedicineIds(req[p].medications)
                   w == req[p].result[1]
                   recorded ==
                       {{x, y} : <<x, y>> \in
                           {pr \in Range(ids) \X Range(ids) :
                               /\ pr[1] # pr[2]
                               /\ \E r \in drug_interactions :
                                     {r.drug_a_id, r.drug_b_id} = {pr[1], pr[2]}}}
               IN Cardinality(Range(ids)) = Len(ids)
                     => /\ PairSet(w) = recorded
                        /\ Len(w) = Cardinality(recorded)
                        /\ \A q \in Reorderings(ids) :
                              PairSet(check_drug_interactions(q)) = PairSet(w)

\* A list of three medicines has given exactly one warning, for a pair whose
\* record is stored in the ordering opposite to the list's.
C14_Witness ==
    \E p \in Procs :
        /\ req[p].op = "check_drug_interactions"
        /\ req[p].pc = "done"
        /\ Len(req[p].medications) = 3
        /\ Cardinality(Range(MedicineIds(req[p].medications))) = 3
        /\ Len(req[p].result[1]) = 1
        /\ LET d == req[p].result[1][1].drugs
           IN /\ ~InteractsAsStored(d[1], d[2])
              /\ InteractsAsStored(d[2], d[1])

\* C15: check_allergies reports a medicine of the list whenever an allergy
\* token of the patient, trimmed and lowercased, occurs in the medicine's
\* lowercased name (both implementations).
C15_AllergyByName ==
    \A p \in Procs :
        (req[p].op \in {"check_allergies", "checker_check_allergies"} /\ req[p].pc = "done")
            => \A t \in Tokens(req[p].patient_id) :
                  \A m \in Range(MedicineIds(req[p].medications)) \cap DOMAIN medicines :
                     Contains(Lower(Strip(t)), Lower(medicines[m].name))
                        => \E w \in Range(req[p].result[1]) :
                              w.allergic_to = medicines[m].name

\* A token written with a capital and a leading blank has matched a name
\* written with a capital.
C15_Witness ==
    \E p \in Procs :
        /\ req[p].op = "check_allergies"
        /\ req[p].pc = "done"
        /\ req[p].result[1] # <<>>
        /\ \E t \in Tokens(req[p].patient_id) :
              /\ Strip(t) # t
              /\ Lower(t) # t
              /\ Contains(Lower(Strip(t)), Lower(medicines[1].name))
              /\ ~Contains(Strip(t), medicines[1].name)
        /\ \A t \in Tokens(req[p].patient_id) : Strip(t) # <<>>

\* C16: check_allergies reports a medicine of the list whenever an allergy
\* token of the patient, trimmed and lowercased, occurs in the medicine's
\* lowercased generic name.
C16_AllergyByGenericName ==
    \A p \in Procs :
        (req[p].op = "check_allergies" /\ req[p].pc = "done")
            => \A t \in Tokens(req[p].patient_id) :
                  \A m \in Range(MedicineIds(req[p].medications)) \cap DOMAIN medicines :
                     (/\ medicines[m].generic_name # NULL
                      /\ Contains(Lower(Strip(t)), Lower(medicines[m].generic_name)))
                        => \E w \in Range(req[p].result[1]) :
                              w.allergic_to = medicines[m].name

\* The pairs of positions i < j of a list whose medicines have an interaction
\* record in either ordering, and the order by i, then by j.
HitPairs(ids) ==
    {h \in (1 .. Len(ids)) \X (1 .. Len(ids)) :
        /\ h[1] < h[2]
        /\ \E r \in drug_interactions :
              {r.drug_a_id, r.drug_b_id} = {ids[h[1]], ids[h[2]]}}

Before(g, h) == g[1] < h[1] \/ (g[1] = h[1] /\ g[2] < h[2])

\* C21: check_drug_interactions reports its warnings in the order of the
\* position pairs (i, j), i < j, by i ascending and then j ascending, and
\* lists each pair as [medicine_ids[i], medicine_ids[j]].
C21_WarningOrder ==
    \A p \in Procs :
        (req[p].op = "check_drug_interactions" /\ req[p].pc = "done")
            => LET ids == MedicineIds(req[p].medications)
                   w == req[p].result[1]
                   H == HitPairs(ids)
               IN /\ Len(w) = Cardinality(H)
                  /\ \A h \in H :
                        w[1 + Cardinality({g \in H : Before(g, h)})].drugs
                            = <<ids[h[1]], ids[h[2]]>>

\* A list of three distinct medicines has given at least two warnings, the record
\* of the first pair being stored in the ordering opposite to the list's.
C21_Witness ==
    \E p \in Procs :
        /\ req[p].op = "check_drug_interactions"
        /\ req[p].pc = "done"
        /\ Len(req[p].result[1]) >= 2
        /\ Cardinality(Range(MedicineIds(req[p].medications))) = 3
        /\ LET d == req[p].result[1][1].drugs
           IN d[1] # d[2] /\ ~InteractsAsStored(d[1], d[2])

\* C22: an allocate or dispense call, with any requested quantity, only
\* drains batches: the set of batch records is the one from before the call
\* and no batch, committed or held in the caller's session, holds more than
\* it held before the call.
C22_OnlyDrained ==
    \A p \in Procs :
        (IsAllocate(p) \/ IsDispense(p))
            => /\ DOMAIN inventory = DOMAIN req[p].pre
               /\ \A b \in DOMAIN inventory :
                     /\ inventory[b].quantity <= req[p].pre[b]
                     /\ SessionQuantity(p, b) <= req[p].pre[b]

\* C27: a step of an allocate call changes nothing but the quantity of
\* batches of the requested medicine at the requested location that are not
\* expired and held stock when the call began: every other batch, every
\* other field of a batch, the set of batches and every prescription stay
\* as they are, in the table and in the caller's session.
C27_AllocateFrame ==
    [][\A p \in Procs :
          (IsAllocate(p) /\ req[p].pc \in {"alloc", "commit"})
              => /\ prescriptions' = prescriptions
                 /\ DOMAIN inventory' = DOMAIN inventory
                 /\ \A b \in DOMAIN inventory :
                       /\ inventory'[b] = [inventory[b] EXCEPT
                                              !.quantity = inventory'[b].quantity]
                       /\ (\/ inventory'[b].quantity # inventory[b].quantity
                           \/ SessionQuantity(p, b)' # SessionQuantity(p, b))
                             => /\ inventory[b].medicine_id = req[p].medicine_id
                                /\ inventory[b].location = req[p].location
                                /\ inventory[b].expiry_date > today
                                /\ req[p].pre[b] > 0]_vars

\* An allocate call has succeeded and drawn from a batch while the ledger
\* holds stock of the same medicine that is expired or at another location.
C27_Witness ==
    \E p \in Procs :
        /\ IsAllocate(p)
        /\ req[p].pc = "done"
        /\ req[p].quantity > 0
        /\ \E b, c \in DOMAIN inventory :
              /\ inventory[b].quantity < req[p].pre[b]
              /\ inventory[c].medicine_id = req[p].medicine_id
              /\ inventory[c].quantity > 0
              /\ \/ inventory[c].location # req[p].location
                 \/ inventory[c].expiry_date <= today
        /\ prescriptions # <<>>

\* C26: in a dispense_prescription call that no other request interferes
\* with, whenever check_stock_availability has returned true for an item,
\* the dispense_medicine_fifo call that follows does not fail, wherever the
\* batches of the medicine are located.
C26_CheckImpliesAllocation ==
    [][\A p \in Procs :
          (IsDispense(p) /\ req[p].pc = "alloc") => req'[p].pc # "failed"]_vars

\* The quantity of medicine m that the items of a list request, and the sum
\* of it over the prescriptions whose status is dispensed.
RECURSIVE RequestedIn(_, _)
RequestedIn(items, m) ==
    IF items = <<>> THEN 0
    ELSE (IF Head(items).medicine_id = m THEN Head(items).quantity ELSE 0)
         + RequestedIn(Tail(items), m)

RECURSIVE RequestedByDispensed(_, _)
RequestedByDispensed(rxs, m) ==
    IF rxs = <<>> THEN 0
    ELSE (IF Head(rxs).status = DISPENSED THEN RequestedIn(Head(rxs).items, m) ELSE 0)
         + RequestedByDispensed(Tail(rxs), m)

\* The quantity removed from the batches of medicine m since the initial
\* ledger.
Removed(m) ==
    LET S == {b \in DOMAIN inventory : inventory[b].medicine_id = m}
    IN SumQty(InitialLedger, S) - SumQty(inventory, S)

\* C24: after any sequence of create_prescription and dispense_prescription
\* calls, successful or failed, the quantity removed from the batches of
\* each medicine since the initial ledger is the sum of the quantities
\* requested of that medicine by the items of the dispensed prescriptions.
C24_StockConservation ==
    (\A p \in Procs : req[p].pc \in {"idle", "done", "failed"})
        => \A m \in Medicines : Removed(m) = RequestedByDispensed(prescriptions, m)

\* C25: of two dispense_prescription requests for the same prescription, in
\* any interleaving, at most one succeeds.
C25_DispensedAtMostOnce ==
    \A p, q \in Procs :
        (/\ p # q
         /\ IsDispense(p) /\ IsDispense(q)
         /\ req[p].pid = req[q].pid)
            => ~(req[p].pc = "done" /\ req[q].pc = "done")

\* C28: in the prescription create_prescription stores, an item carries an
\* interaction warning only when its medicine is one of the warning's pair,
\* and an allergy warning only when its medicine is the one the warning
\* names.
C28_WarningsOnTheirItems ==
    \A p \in Procs :
        (req[p].op = "create" /\ req[p].pc = "done")
            => \A k \in 1 .. Len(prescriptions[req[p].pid].items) :
                  LET item == prescriptions[req[p].pid].items[k]
                  IN item.warnings # NULL
                        => \A w \in Range(item.warnings[1]) :
                              /\ "drugs" \in DOMAIN w
                                    => item.medicine_id \in Range(w.drugs)
                              /\ "allergic_to" \in DOMAIN w
                                    => /\ item.medicine_id \in DOMAIN medicines
                                       /\ w.allergic_to = medicines[item.medicine_id].name

\* C23: after any create_prescription calls every stored prescription item
\* has a quantity greater than zero.
C23_ItemQuantityPositive ==
    \A i \in 1 .. Len(prescriptions) :
        \A k \in 1 .. Len(prescriptions[i].items) :
            prescriptions[i].items[k].quantity > 0

\* ------------------------------------------------------- reading the login
\* The wrong-password answers given for an account since its last answer
\* with tokens.
RECURSIVE FailedSinceSuccess(_, _)
FailedSinceSuccess(log, u) ==
    IF log = <<>> THEN 0
    ELSE LET last == log[Len(log)]
             rest == SubSeq(log, 1, Len(log) - 1)
         IN IF last.username # u THEN FailedSinceSuccess(rest, u)
            ELSE IF last.outcome = "tokens" THEN 0
            ELSE IF last.outcome = "invalid_password" THEN 1 + FailedSinceSuccess(rest, u)
            ELSE FailedSinceSuccess(rest, u)

\* The lock of an account has not passed.
Locked(u) ==
    /\ users[u].account_locked_until # NULL
    /\ users[u].account_locked_until[1] > now

\* An account with MAX_LOGIN_ATTEMPTS wrong-password answers since its last
\* answer with tokens has a lock set.
LockedAfterFailures ==
    \A u \in Accounts :
        FailedSinceSuccess(responses, u) >= MAX_LOGIN_ATTEMPTS
            => users[u].account_locked_until # NULL

\* An answer given for an account while its lock has not passed is the
\* rejection of a locked account.
RejectedWhileLocked ==
    responses' # responses
        => LET r == responses'[Len(responses')]
           IN (r.username \in Accounts /\ Locked(r.username)) => r.outcome = "locked"

\* An answer with tokens leaves the account's counter at 0.
SuccessResets ==
    responses' # responses
        => LET r == responses'[Len(responses')]
           IN r.outcome = "tokens" => users'[r.username].failed_login_attempts = 0

\* C29: once MAX_LOGIN_ATTEMPTS wrong-password attempts have been answered
\* for an account with no successful login between them the account is
\* locked; every login attempt answered before account_locked_until has
\* passed is rejected, with the correct password too; and a successful login
\* sets failed_login_attempts to 0.
C29_LoginLockout ==
    [][/\ LockedAfterFailures'
       /\ RejectedWhileLocked
       /\ SuccessResets]_vars

\* C30: after any sequence of create_appointment and
\* update_appointment_status calls no two appointments whose status is
\* scheduled or confirmed have the same doctor, date and time.
C30_NoDoubleBooking ==
    \A i, j \in 1 .. Len(appointments) :
        (/\ i # j
         /\ appointments[i].status \in {SCHEDULED, CONFIRMED}
         /\ appointments[j].status \in {SCHEDULED, CONFIRMED})
            => ~(/\ appointments[i].doctor_id = appointments[j].doctor_id
                 /\ appointments[i].appointment_date = appointments[j].appointment_date
                 /\ appointments[i].appointment_time = appointments[j].appointment_time)

====
